---- MODULE Spec2Model ----
(***************************************************************************)
(* Model of clippy_lints/src/trait_bounds.rs: the TraitBounds late lint    *)
(* pass.  check_generics runs check_type_repetition and then               *)
(* check_trait_bound_duplication over one Generics node.  Both loops are   *)
(* modelled one iteration per step, so the type-to-bounds map and the      *)
(* parameter map are visible between iterations.                           *)
(*                                                                         *)
(* Strings are sequences of one-character strings, so format!, push_str    *)
(* and truncate act on characters as they do in the source.                *)
(***************************************************************************)
EXTENDS Integers, Sequences, FiniteSets, TLC

VARIABLES gen, max_trait_bounds, pc, i, map, dmap, findings

vars == <<gen, max_trait_bounds, pc, i, map, dmap, findings>>

(***************************************************************************)
(* Bounds of the model.                                                    *)
(***************************************************************************)
MaxPreds == 3
MaxDupPreds == 2
MaxParams == 2
MaxCfg == 2

(***************************************************************************)
(* Source text.                                                            *)
(***************************************************************************)
TxtCopy == <<"C", "o", "p", "y">>
TxtClone == <<"C", "l", "o", "n", "e">>
TxtCloneAlias == <<"C", "l">>
TxtMissing == <<"X">>
TxtLifetime == <<"'", "a">>
TxtT == <<"T">>
TxtSliceU == <<"[", "U", "]">>

\* The one character U+0060 (a string of this language cannot hold it).
BackTick == "BACKTICK"

HintPrefix ==
  <<"c", "o", "n", "s", "i", "d", "e", "r", " ",
    "c", "o", "m", "b", "i", "n", "i", "n", "g", " ",
    "t", "h", "e", " ",
    "b", "o", "u", "n", "d", "s", ":", " ", BackTick>>

(***************************************************************************)
(* Spans.  Every node of the input has its own span; a span is the node's  *)
(* position in the Generics (list, index, sub-node).  sub = 0 is the node  *)
(* itself, sub = -1 the bounded type, sub = b > 0 its b-th bound.          *)
(***************************************************************************)
MkSpan(list, at, sub) == [list |-> list, at |-> at, sub |-> sub]

(***************************************************************************)
(* rustc_hir values, without their spans (spans are attached by position   *)
(* when the Generics node is built).                                       *)
(***************************************************************************)
TraitB(res, text, expanded) ==
  [kind |-> "Trait", res |-> res, text |-> text, expanded |-> expanded]

OutlivesB ==
  [kind |-> "Outlives", res |-> "None", text |-> TxtLifetime, expanded |-> FALSE]

BCopy == TraitB("Copy", TxtCopy, FALSE)
BClone == TraitB("Clone", TxtClone, FALSE)
BCloneAlias == TraitB("Clone", TxtCloneAlias, FALSE)
BCloneExpanded == TraitB("Clone", TxtClone, TRUE)
BErr == TraitB("Err", TxtMissing, FALSE)

\* TyKind::Path(QPath::Resolved(qself, Path { segments })), TyKind::Rptr and
\* TyKind::Slice; for Rptr and Slice, segments is the path of the inner type.
MkTy(kind, qself, segments, text) ==
  [kind |-> kind, qself |-> qself, segments |-> segments, text |-> text]

TyT == MkTy("Path", FALSE, <<"T">>, TxtT)
TyU == MkTy("Path", FALSE, <<"U">>, <<"U">>)
TySliceU == MkTy("Slice", FALSE, <<"U">>, TxtSliceU)
TyRefT == MkTy("Rptr", FALSE, <<"T">>, <<"&", "T">>)
TyMultiSeg == MkTy("Path", FALSE, <<"T", "Item">>, <<"T", ":", ":", "I">>)
TyQSelf == MkTy("Path", TRUE, <<"T", "Item">>, <<"<", "U", ">", ":", ":", "I">>)
NoTy == MkTy("None", FALSE, <<>>, <<>>)

BoundPred(ty, bounds, expanded) ==
  [variant |-> "BoundPredicate", bounded_ty |-> ty, bounds |-> bounds,
   expanded |-> expanded]

RegionPred ==
  [variant |-> "RegionPredicate", bounded_ty |-> NoTy, bounds |-> <<OutlivesB>>,
   expanded |-> FALSE]

Param(kind, name, bounds, expanded) ==
  [kind |-> kind, name |-> name, bounds |-> bounds, expanded |-> expanded]

SeqsUpTo(S, n) == UNION {[1..k -> S] : k \in 0..n}

\* Attach spans by position.
WithSpans(list, bs, at) ==
  [b \in 1..Len(bs) |->
     [kind |-> bs[b].kind, res |-> bs[b].res, text |-> bs[b].text,
      expanded |-> bs[b].expanded, span |-> MkSpan(list, at, b)]]

MkPredicates(ps) ==
  [k \in 1..Len(ps) |->
     [variant |-> ps[k].variant,
      bounded_ty |-> [kind |-> ps[k].bounded_ty.kind,
                      qself |-> ps[k].bounded_ty.qself,
                      segments |-> ps[k].bounded_ty.segments,
                      text |-> ps[k].bounded_ty.text,
                      span |-> MkSpan("where", k, -1)],
      bounds |-> WithSpans("where", ps[k].bounds, k),
      expanded |-> ps[k].expanded,
      span |-> MkSpan("where", k, 0)]]

MkParams(qs) ==
  [k \in 1..Len(qs) |->
     [kind |-> qs[k].kind, name |-> qs[k].name,
      bounds |-> WithSpans("params", qs[k].bounds, k),
      expanded |-> qs[k].expanded,
      span |-> MkSpan("params", k, 0)]]

MkGenerics(expanded, qs, ps) ==
  [expanded |-> expanded, params |-> MkParams(qs), predicates |-> MkPredicates(ps)]

(***************************************************************************)
(* Inputs.  The Rep choices exercise check_type_repetition (predicates on  *)
(* two types, bound lists of length 0..2 with and without trait bounds,    *)
(* one macro-expanded predicate, one lifetime predicate); the Dup choices  *)
(* exercise check_trait_bound_duplication (parameters with inline bounds,  *)
(* where predicates on simple and complex types).                          *)
(***************************************************************************)
RepBoundLists == {<<BCopy>>, <<BClone>>, <<OutlivesB>>, <<BCopy, BClone>>}

RepPredChoices ==
  {BoundPred(TyT, bs, FALSE) : bs \in RepBoundLists}
    \cup {BoundPred(TySliceU, bs, FALSE) : bs \in {<<>>, <<OutlivesB>>}}
    \cup {BoundPred(TyT, <<BClone>>, TRUE), RegionPred}

RepParams == <<Param("Plain", "T", <<BClone>>, FALSE)>>

DupParamChoices ==
  {Param("Plain", "T", bs, FALSE) :
     bs \in {<<BClone>>, <<BClone, BCloneAlias>>, <<BErr>>, <<OutlivesB, BCopy>>,
             <<BCloneExpanded>>}}
    \cup {Param("Plain", "U", <<BClone>>, FALSE),
          Param("Plain", "T", <<BClone>>, TRUE),
          Param("Fresh", "_", <<BClone>>, FALSE)}

\* Parameter names are unique within one Generics (resolution rejects a
\* duplicate name before lints run).
UniqueNames(qs) ==
  \A a, b \in 1..Len(qs) :
    (a # b /\ qs[a].kind = "Plain" /\ qs[b].kind = "Plain") => qs[a].name # qs[b].name

DupPredChoices ==
  {BoundPred(TyT, bs, FALSE) :
     bs \in {<<BClone>>, <<BClone, BClone>>, <<BErr>>, <<BCopy, OutlivesB>>}}
    \cup {BoundPred(ty, <<BClone>>, FALSE) : ty \in {TyU, TyRefT, TyMultiSeg, TyQSelf}}
    \cup {BoundPred(TyT, <<BClone>>, TRUE), RegionPred}

(***************************************************************************)
(* struct SpanlessTy: equality of two bounded types through                *)
(* SpanlessEq::eq_ty, which compares kind and path and never the span or   *)
(* the source text.  SpanlessHash agrees with it, so the UnhashMap finds   *)
(* an entry exactly when eq holds.                                         *)
(***************************************************************************)
\* A derived equality instead: the span and the text take part.
SpanlessTyEqWithSpan(a, b) == a = b

SpanlessTyEq(a, b) ==
  /\ a.kind = b.kind
  /\ a.qself = b.qself
  /\ a.segments = b.segments

\* map.insert(key, value): the entries with an equal key (at most one).
MapFind(m, key) == {e \in m : SpanlessTyEq(e.key, key)}

\* An insert that leaves an existing entry as it is.
MapInsertKeepOld(m, key, value) ==
  IF MapFind(m, key) = {}
  THEN m \cup {[key |-> key, value |-> value]}
  ELSE m

\* map.insert(key, value): the map afterwards.  An existing entry keeps its
\* key and takes the new value.
MapInsert(m, key, value) ==
  IF MapFind(m, key) = {}
  THEN m \cup {[key |-> key, value |-> value]}
  ELSE (m \ MapFind(m, key))
         \cup {[key |-> e.key, value |-> value] : e \in MapFind(m, key)}

\* The two `for b in ...` loops of the hint: push " {} +" for each trait bound.
RECURSIVE PushTraits(_, _)
PushTraits(s, bs) ==
  IF bs = <<>> THEN s
  ELSE PushTraits(
         IF Head(bs).kind = "Trait"
         THEN s \o <<" ">> \o Head(bs).text \o <<" ", "+">>
         ELSE s,
         Tail(bs))

\* hint_string.truncate(hint_string.len() - 2)
Truncate2(s) == SubSeq(s, 1, Len(s) - 2)

\* The hint of one finding: format!, the two loops, truncate, push.
HintString(p, v) ==
  Append(
    Truncate2(
      PushTraits(
        PushTraits(HintPrefix \o p.bounded_ty.text \o <<":">>, v),
        p.bounds)),
    BackTick)

\* The spans whose snippets the two loops render, in order.
RECURSIVE TraitSpans(_)
TraitSpans(bs) ==
  IF bs = <<>> THEN <<>>
  ELSE (IF Head(bs).kind = "Trait" THEN <<Head(bs).span>> ELSE <<>>)
         \o TraitSpans(Tail(bs))

\* The anchor of a TYPE_REPETITION_IN_BOUNDS finding.
RepAnchor(p) == p.span

\* span_lint_and_help(cx, TYPE_REPETITION_IN_BOUNDS, p.span, .., &hint_string);
\* rendered records the bounds whose text went into the hint.
RepFinding(p, v) ==
  [lint |-> "TYPE_REPETITION_IN_BOUNDS",
   span |-> RepAnchor(p),
   help |-> HintString(p, v),
   rendered |-> TraitSpans(v) \o TraitSpans(p.bounds)]

\* The chain without its bound-count condition.
RepEligibleNoThreshold(p, max) ==
  /\ p.variant = "BoundPredicate"
  /\ ~p.expanded

\* The chain without its from_expansion condition.
RepEligibleNoExpansion(p, max) ==
  /\ p.variant = "BoundPredicate"
  /\ Len(p.bounds) <= max

\* The first three conditions of the if_chain.
RepEligible(p, max) ==
  /\ p.variant = "BoundPredicate"
  /\ Len(p.bounds) <= max
  /\ ~p.expanded

\* fn get_trait_res_span_from_bound: Some((res, span)) as a one-element
\* sequence, None as the empty one.
get_trait_res_span_from_bound(bound) ==
  IF bound.kind = "Trait"
  THEN <<[res |-> bound.res, span |-> bound.span]>>
  ELSE <<>>

\* bounds.iter().filter_map(get_trait_res_span_from_bound)
RECURSIVE FilterMapTraits(_)
FilterMapTraits(bs) ==
  IF bs = <<>> THEN <<>>
  ELSE get_trait_res_span_from_bound(Head(bs)) \o FilterMapTraits(Tail(bs))

\* trait_resolutions_direct.iter().find(|(res_direct, _)| *res_direct == res_where)
RECURSIVE FindDirect(_, _)
FindDirect(direct, res_where) ==
  IF direct = <<>> THEN <<>>
  ELSE IF Head(direct).res = res_where THEN <<Head(direct)>>
  ELSE FindDirect(Tail(direct), res_where)

DupFinding(span_direct) ==
  [lint |-> "TRAIT_DUPLICATION_IN_BOUNDS",
   span |-> span_direct,
   help |-> "consider removing this trait bound",
   rendered |-> <<>>]

\* The inner for loop: one finding for each where-clause trait bound that
\* finds an inline bound with the same resolution.
RECURSIVE DupFindingsFor(_, _)
DupFindingsFor(direct, wheres) ==
  IF wheres = <<>> THEN <<>>
  ELSE (IF FindDirect(direct, Head(wheres).res) # <<>>
        THEN <<DupFinding(FindDirect(direct, Head(wheres).res)[1].span)>>
        ELSE <<>>)
         \o DupFindingsFor(direct, Tail(wheres))

\* if let TyKind::Path(QPath::Resolved(_, Path { segments, .. })) = ..kind;
\* if let Some(segment) = segments.first();
\* the identifier looked up in the map, as a set of zero or one element.
DupLookupIdent(ty) ==
  IF ty.kind = "Path" /\ ty.segments # <<>> THEN {ty.segments[1]} ELSE {}

\* The conditions of the second if_chain.
DupMatches(p, m) ==
  /\ p.variant = "BoundPredicate"
  /\ ~p.expanded
  /\ DupLookupIdent(p.bounded_ty) # {}
  /\ DupLookupIdent(p.bounded_ty) \subseteq DOMAIN m

(***************************************************************************)
(* The state machine: check_generics.                                      *)
(***************************************************************************)
InitWith(g, mtb) ==
  /\ gen = g
  /\ max_trait_bounds = mtb
  /\ pc = "check_type_repetition"
  /\ i = 0
  /\ map = {}
  /\ dmap = <<>>
  /\ findings = <<>>

InitRep ==
  \E e \in BOOLEAN, ps \in SeqsUpTo(RepPredChoices, MaxPreds), mtb \in 0..MaxCfg :
    InitWith(MkGenerics(e, RepParams, ps), mtb)

InitDup ==
  \E e \in BOOLEAN, qs \in SeqsUpTo(DupParamChoices, MaxParams),
     ps \in SeqsUpTo(DupPredChoices, MaxDupPreds) :
    /\ UniqueNames(qs)
    /\ InitWith(MkGenerics(e, qs, ps), MaxCfg)

\* check_type_repetition, lines 118-122: the early return, or the empty map.
RepEnter ==
  /\ pc = "check_type_repetition"
  /\ IF gen.expanded
     THEN pc' = "check_trait_bound_duplication" /\ i' = 0
     ELSE pc' = "rep_loop" /\ i' = 1
  /\ map' = {}
  /\ UNCHANGED <<gen, max_trait_bounds, dmap, findings>>

\* One iteration of `for bound in gen.where_clause.predicates`.
RepIter ==
  /\ pc = "rep_loop"
  /\ i <= Len(gen.predicates)
  /\ LET p == gen.predicates[i]
         old == MapFind(map, p.bounded_ty)
     IN IF RepEligible(p, max_trait_bounds)
        THEN /\ map' = MapInsert(map, p.bounded_ty, p.bounds)
             /\ findings' =
                  IF old # {}
                  THEN Append(findings, RepFinding(p, (CHOOSE e \in old : TRUE).value))
                  ELSE findings
        ELSE UNCHANGED <<map, findings>>
  /\ i' = i + 1
  /\ UNCHANGED <<gen, max_trait_bounds, pc, dmap>>

\* The loop ends; the map is dropped.
RepExit ==
  /\ pc = "rep_loop"
  /\ i > Len(gen.predicates)
  /\ pc' = "check_trait_bound_duplication"
  /\ i' = 0
  /\ map' = {}
  /\ UNCHANGED <<gen, max_trait_bounds, dmap, findings>>

\* check_trait_bound_duplication, lines 173-177.
DupEnter ==
  /\ pc = "check_trait_bound_duplication"
  /\ IF gen.expanded \/ gen.params = <<>> \/ gen.predicates = <<>>
     THEN pc' = "done" /\ i' = 0
     ELSE pc' = "dup_params" /\ i' = 1
  /\ dmap' = <<>>
  /\ UNCHANGED <<gen, max_trait_bounds, map, findings>>

\* One iteration of `for param in gen.params`.
DupParamIter ==
  /\ pc = "dup_params"
  /\ i <= Len(gen.params)
  /\ LET param == gen.params[i]
     IN IF param.kind = "Plain"
        THEN dmap' = [x \in DOMAIN dmap \cup {param.name} |->
                        IF x = param.name THEN FilterMapTraits(param.bounds)
                        ELSE dmap[x]]
        ELSE UNCHANGED dmap
  /\ i' = i + 1
  /\ UNCHANGED <<gen, max_trait_bounds, pc, map, findings>>

DupParamExit ==
  /\ pc = "dup_params"
  /\ i > Len(gen.params)
  /\ pc' = "dup_preds"
  /\ i' = 1
  /\ UNCHANGED <<gen, max_trait_bounds, map, dmap, findings>>

\* One iteration of `for predicate in gen.where_clause.predicates`.
DupPredIter ==
  /\ pc = "dup_preds"
  /\ i <= Len(gen.predicates)
  /\ LET p == gen.predicates[i]
     IN IF DupMatches(p, dmap)
        THEN findings' =
               findings \o
                 DupFindingsFor(dmap[CHOOSE x \in DupLookupIdent(p.bounded_ty) : TRUE],
                                FilterMapTraits(p.bounds))
        ELSE UNCHANGED findings
  /\ i' = i + 1
  /\ UNCHANGED <<gen, max_trait_bounds, pc, map, dmap>>

DupExit ==
  /\ pc = "dup_preds"
  /\ i > Len(gen.predicates)
  /\ pc' = "done"
  /\ i' = 0
  /\ dmap' = <<>>
  /\ UNCHANGED <<gen, max_trait_bounds, map, findings>>

Next ==
  \/ RepEnter
  \/ RepIter
  \/ RepExit
  \/ DupEnter
  \/ DupParamIter
  \/ DupParamExit
  \/ DupPredIter
  \/ DupExit

SpecRep == InitRep /\ [][Next]_vars

SpecDup == InitDup /\ [][Next]_vars

(***************************************************************************)
(* Vocabulary of the properties.                                           *)
(***************************************************************************)
Preds == gen.predicates

IsRepF(f) == f.lint = "TYPE_REPETITION_IN_BOUNDS"

IsDupF(f) == f.lint = "TRAIT_DUPLICATION_IN_BOUNDS"

RepFindings == SelectSeq(findings, IsRepF)

DupFindings == SelectSeq(findings, IsDupF)

\* check_type_repetition has returned.
RepFinished == pc \notin {"check_type_repetition", "rep_loop"}

BoundPredIdx == {k \in DOMAIN Preds : Preds[k].variant = "BoundPredicate"}

\* Structural equality of bounded types, stated on the type's shape.
Shape(ty) == <<ty.kind, ty.qself, ty.segments>>

SameType(j, k) == Shape(Preds[j].bounded_ty) = Shape(Preds[k].bounded_ty)

\* A predicate the repetition check does not skip.
Eligible(k) ==
  /\ k \in BoundPredIdx
  /\ Len(Preds[k].bounds) <= max_trait_bounds
  /\ ~Preds[k].expanded

EligibleIdx == {k \in DOMAIN Preds : Eligible(k)}

IsTraitBound(b) == b.kind = "Trait"

TraitBoundSpans(bs) ==
  LET sel == SelectSeq(bs, IsTraitBound)
  IN [j \in 1..Len(sel) |-> sel[j].span]

RepFindingsAt(sp) ==
  {n \in DOMAIN findings : IsRepF(findings[n]) /\ findings[n].span = sp}

\* The latest member of S before k.
PrevIn(S, k) == CHOOSE j \in S : j < k /\ \A l \in S : l < k => l <= j

\* Exactly one finding at predicate k, carrying the trait bounds of
\* predicate j followed by those of predicate k.
OneFindingCarrying(j, k) ==
  /\ Cardinality(RepFindingsAt(Preds[k].span)) = 1
  /\ \A n \in RepFindingsAt(Preds[k].span) :
       findings[n].rendered =
         TraitBoundSpans(Preds[j].bounds) \o TraitBoundSpans(Preds[k].bounds)

(***************************************************************************)
(* C1.  Exactly two BoundPredicates with structurally-equal bounded types: *)
(* exactly one TYPE_REPETITION_IN_BOUNDS finding, anchored at the second.  *)
(***************************************************************************)
C1_TwoPreds ==
  /\ Cardinality(BoundPredIdx) = 2
  /\ \A j, k \in BoundPredIdx : SameType(j, k)

C1_Second == CHOOSE k \in BoundPredIdx : \A j \in BoundPredIdx : j <= k

C1_Outcome ==
  /\ Len(RepFindings) = 1
  /\ RepFindings[1].span = Preds[C1_Second].span

C1_AllEligible == ~gen.expanded /\ \A k \in BoundPredIdx : Eligible(k)

\* C1 as stated: for every declaration whose where-clause has exactly two
\* BoundPredicates with structurally-equal bounded types, there is exactly
\* one repetition finding and it is anchored at the second predicate.
C1_Original == (RepFinished /\ C1_TwoPreds) => C1_Outcome

\* C1 as amended: the same, provided the generics node and both predicates
\* are not macro-expanded and neither predicate has more than
\* max_trait_bounds bounds.
C1_Amended == (RepFinished /\ C1_TwoPreds /\ C1_AllEligible) => C1_Outcome

C1_Witness == RepFinished /\ C1_TwoPreds /\ C1_AllEligible /\ C1_Outcome

(***************************************************************************)
(* C2.  Three or more BoundPredicates on the same type: one finding per    *)
(* predicate after the first, the k-th carrying the bounds of the          *)
(* (k-1)-th and the k-th occurrence only.                                  *)
(***************************************************************************)
C2_Group(k) == {j \in BoundPredIdx : SameType(j, k)}

C2_EGroup(k) == {j \in EligibleIdx : SameType(j, k)}

C2_Chain(S, k) ==
  IF \E j \in S : j < k
  THEN OneFindingCarrying(PrevIn(S, k), k)
  ELSE RepFindingsAt(Preds[k].span) = {}

\* C2 as stated: in every declaration with three or more BoundPredicates
\* sharing one bounded type, every such predicate after the first has
\* exactly one finding, carrying the bounds of the occurrence just before
\* it and its own; the first has none.
C2_Original ==
  RepFinished =>
    \A k \in BoundPredIdx :
      Cardinality(C2_Group(k)) >= 3 => C2_Chain(C2_Group(k), k)

\* C2 as amended: the same over the predicates that are not skipped
\* (not macro-expanded, at most max_trait_bounds bounds) of a generics node
\* that is not macro-expanded.
C2_Amended ==
  (RepFinished /\ ~gen.expanded) =>
    \A k \in EligibleIdx :
      Cardinality(C2_EGroup(k)) >= 3 => C2_Chain(C2_EGroup(k), k)

\* Three predicates on one type, the first with a trait bound that the
\* third finding leaves out.
C2_Witness ==
  /\ RepFinished
  /\ ~gen.expanded
  /\ Len(Preds) = 3
  /\ \A k \in 1..3 : Eligible(k) /\ SameType(1, k)
  /\ TraitBoundSpans(Preds[1].bounds) # <<>>
  /\ Len(RepFindings) = 2
  /\ RepFindings[2].rendered =
       TraitBoundSpans(Preds[2].bounds) \o TraitBoundSpans(Preds[3].bounds)

(***************************************************************************)
(* C5.  No finding is anchored at a predicate with more than               *)
(* max_trait_bounds bounds, and no bound of such a predicate is rendered   *)
(* into another finding's suggestion.                                      *)
(***************************************************************************)
OverThreshold(k) ==
  k \in BoundPredIdx /\ Len(Preds[k].bounds) > max_trait_bounds

Rendered(f) == {f.rendered[j] : j \in DOMAIN f.rendered}

BoundSpansOf(k) == {Preds[k].bounds[b].span : b \in DOMAIN Preds[k].bounds}

\* C5: a predicate whose bound count (trait and lifetime bounds together)
\* exceeds max_trait_bounds anchors no repetition finding and contributes
\* no bound to any finding; with max_trait_bounds = 0 and every predicate
\* holding at least one bound there is no repetition finding at all.
C5_Threshold ==
  /\ \A n \in DOMAIN findings :
       IsRepF(findings[n]) =>
         \A k \in DOMAIN Preds :
           OverThreshold(k) =>
             /\ findings[n].span # Preds[k].span
             /\ Rendered(findings[n]) \cap BoundSpansOf(k) = {}
  /\ (max_trait_bounds = 0 /\ \A k \in BoundPredIdx : Len(Preds[k].bounds) >= 1)
       => RepFindings = <<>>

\* An over-threshold predicate with trait bounds lies between two
\* predicates on the same type that produce a finding.
C5_Witness ==
  /\ RepFinished
  /\ Len(Preds) = 3
  /\ Eligible(1) /\ OverThreshold(2) /\ Eligible(3)
  /\ SameType(1, 2) /\ SameType(2, 3)
  /\ TraitBoundSpans(Preds[2].bounds) # <<>>
  /\ Len(RepFindings) = 1
  /\ RepFindings[1].span = Preds[3].span

(***************************************************************************)
(* C10.  Skipped predicates leave the type-to-bounds map alone.            *)
(***************************************************************************)
\* While the loop runs, the map holds, for each bounded type among the
\* eligible predicates already visited, the bounds of the latest of them.
C10_MapIsLatestEligible ==
  pc = "rep_loop" =>
    /\ \A e \in map :
         \E k \in EligibleIdx :
           /\ k < i
           /\ Shape(e.key) = Shape(Preds[k].bounded_ty)
           /\ \A l \in EligibleIdx : (l < i /\ SameType(l, k)) => l <= k
           /\ e.value = Preds[k].bounds
    /\ \A k \in EligibleIdx :
         k < i => \E e \in map : Shape(e.key) = Shape(Preds[k].bounded_ty)
    /\ \A d, e \in map : Shape(d.key) = Shape(e.key) => d = e

C10_Results ==
  /\ Len(RepFindings) =
       Cardinality(EligibleIdx)
         - Cardinality({Shape(Preds[k].bounded_ty) : k \in EligibleIdx})
  /\ \A k \in EligibleIdx : C2_Chain(C2_EGroup(k), k)

\* C10 as stated: a skipped predicate leaves the map unchanged, a finding
\* carries the bounds of the latest earlier eligible predicate on the same
\* type, and the findings number the eligible predicates minus the distinct
\* bounded types among them.
C10_Original ==
  /\ C10_MapIsLatestEligible
  /\ RepFinished => C10_Results

\* C10 as amended: the same, when the generics node is not macro-expanded.
C10_Amended ==
  /\ C10_MapIsLatestEligible
  /\ (RepFinished /\ ~gen.expanded) => C10_Results

\* A skipped predicate on the same type lies between two eligible ones and
\* the finding carries the first one's bounds.
C10_Witness ==
  /\ RepFinished
  /\ ~gen.expanded
  /\ Len(Preds) = 3
  /\ Eligible(1) /\ ~Eligible(2) /\ Eligible(3)
  /\ 2 \in BoundPredIdx
  /\ SameType(1, 2) /\ SameType(2, 3)
  /\ TraitBoundSpans(Preds[1].bounds) # <<>>
  /\ Len(RepFindings) = 1
  /\ RepFindings[1].rendered =
       TraitBoundSpans(Preds[1].bounds) \o TraitBoundSpans(Preds[3].bounds)

(***************************************************************************)
(* C7.  The suggestion text.                                               *)
(***************************************************************************)
RECURSIVE JoinPlus(_)
JoinPlus(names) ==
  IF names = <<>> THEN <<>>
  ELSE IF Len(names) = 1 THEN names[1]
  ELSE names[1] \o <<" ", "+", " ">> \o JoinPlus(Tail(names))

TraitTexts(bs) ==
  LET sel == SelectSeq(bs, IsTraitBound)
  IN [j \in 1..Len(sel) |-> sel[j].text]

\* `<type text>: B1 + ... + Bn` after the fixed lead-in, closed by a backtick.
C7_Suggestion(tyText, names) ==
  HintPrefix \o tyText \o <<":">>
    \o (IF names = <<>> THEN <<>> ELSE <<" ">> \o JoinPlus(names))
    \o <<BackTick>>

\* C7: every repetition finding's suggestion is the bounded type's text, a
\* colon, and the trait names of the stored predicate followed by those of
\* the current one joined by " + ", for every pair of bound lists, those
\* without any trait bound included.
C7_SuggestionForm ==
  \A n \in DOMAIN findings :
    IsRepF(findings[n]) =>
      LET k == findings[n].span.at
          j == PrevIn(C2_EGroup(k), k)
      IN findings[n].help =
           C7_Suggestion(Preds[k].bounded_ty.text,
                         TraitTexts(Preds[j].bounds) \o TraitTexts(Preds[k].bounds))

(***************************************************************************)
(* Vocabulary of the duplication properties.                               *)
(***************************************************************************)
Params == gen.params

\* The bounded type of predicate k is the bare name of parameter q.
OnParam(k, q) ==
  /\ k \in BoundPredIdx
  /\ Params[q].kind = "Plain"
  /\ Preds[k].bounded_ty.kind = "Path"
  /\ ~Preds[k].bounded_ty.qself
  /\ Preds[k].bounded_ty.segments = <<Params[q].name>>

HasTraitRes(bs, x) == \E b \in DOMAIN bs : bs[b].kind = "Trait" /\ bs[b].res = x

\* The duplication findings anchored at an inline bound of parameter q that
\* resolves to x.
DupFindingsOn(q, x) ==
  {n \in DOMAIN findings :
     /\ IsDupF(findings[n])
     /\ findings[n].span.list = "params"
     /\ findings[n].span.at = q
     /\ Params[q].bounds[findings[n].span.sub].res = x}

NothingExpanded ==
  /\ ~gen.expanded
  /\ \A q \in DOMAIN Params :
       /\ ~Params[q].expanded
       /\ \A b \in DOMAIN Params[q].bounds : ~Params[q].bounds[b].expanded
  /\ \A k \in DOMAIN Preds :
       /\ ~Preds[k].expanded
       /\ \A b \in DOMAIN Preds[k].bounds : ~Preds[k].bounds[b].expanded

Symbols == {"Clone", "Copy"}

(***************************************************************************)
(* C3.  One duplication finding per duplicated trait.                      *)
(***************************************************************************)
\* C3: in a declaration without macro-expanded parts, for every parameter P
\* with an inline bound resolving to Symbol X and a where-predicate on P
\* that bounds it by X, exactly one TRAIT_DUPLICATION_IN_BOUNDS finding is
\* emitted for (P, X), however often X is written on either side.
C3_OnePerDuplicatedTrait ==
  (pc = "done" /\ NothingExpanded) =>
    \A q \in DOMAIN Params, x \in Symbols :
      (/\ Params[q].kind = "Plain"
       /\ HasTraitRes(Params[q].bounds, x)
       /\ \E k \in BoundPredIdx : OnParam(k, q) /\ HasTraitRes(Preds[k].bounds, x))
        => Cardinality(DupFindingsOn(q, x)) = 1

(***************************************************************************)
(* C4.  Nothing macro-expanded takes part in a finding.                    *)
(***************************************************************************)
\* C4: no finding exists when the generics node is expanded; no finding is
\* anchored at, or renders a bound of, an expanded where-predicate or an
\* expanded where-clause bound; no finding is anchored at an inline bound
\* that is expanded or belongs to an expanded parameter.
C4_NoExpandedElement ==
  \A n \in DOMAIN findings :
    LET f == findings[n]
    IN /\ ~gen.expanded
       /\ f.span.list = "where" => ~Preds[f.span.at].expanded
       /\ \A sp \in Rendered(f) :
            /\ ~Preds[sp.at].expanded
            /\ ~Preds[sp.at].bounds[sp.sub].expanded
       /\ f.span.list = "params" =>
            /\ ~Params[f.span.at].expanded
            /\ ~Params[f.span.at].bounds[f.span.sub].expanded

(***************************************************************************)
(* C6.  Only a bare identifier is looked up.                               *)
(***************************************************************************)
IsSingleIdent(ty) ==
  ty.kind = "Path" /\ ~ty.qself /\ Len(ty.segments) = 1

\* C6: an iteration of the predicate loop adds a finding only when the
\* predicate's bounded type is a direct, unqualified, single-segment path.
C6_OnlySingleIdent ==
  [][(pc = "dup_preds" /\ findings' # findings)
       => IsSingleIdent(Preds[i].bounded_ty)]_vars

(***************************************************************************)
(* C8.  Unresolved trait references never match.                           *)
(***************************************************************************)
\* C8: no duplication finding is anchored at an inline bound whose
\* resolution is the error value, so two unresolved bounds never match.
C8_UnresolvedSkipped ==
  \A n \in DOMAIN findings :
    IsDupF(findings[n]) =>
      Params[findings[n].span.at].bounds[findings[n].span.sub].res # "Err"

(***************************************************************************)
(* C9.  Where a duplication finding is anchored.                           *)
(***************************************************************************)
C9_AnchoredInline(f, k) ==
  /\ IsDupF(f)
  /\ f.span.list = "params"
  /\ OnParam(k, f.span.at)
  /\ Params[f.span.at].bounds[f.span.sub].kind = "Trait"
  /\ HasTraitRes(Preds[k].bounds, Params[f.span.at].bounds[f.span.sub].res)

\* C9: every finding added while predicate i is examined is anchored at an
\* inline trait bound of the parameter that the predicate's bounded type
\* names, with the resolution of one of the predicate's trait bounds; the
\* duplication check adds nothing when there is no parameter or no predicate.
C9_InlineAnchor ==
  [][(pc \in {"check_trait_bound_duplication", "dup_params", "dup_preds"}
        /\ findings' # findings)
       => /\ pc = "dup_preds"
          /\ \A n \in (Len(findings) + 1)..Len(findings') :
               C9_AnchoredInline(findings'[n], i)]_vars

====
